---- MODULE Spec2Model ----
(***************************************************************************)
(* HerbalTrace: the role portals (Auth, Collector, Lab, Factory, Admin,    *)
(* Consumer), the row store they read and write, the QR token codec and    *)
(* the traceability aggregator.                                            *)
(*                                                                         *)
(* Text is a sequence of one-character strings, so that trimming,          *)
(* escaping, parsing and formatting are computed character by character.   *)
(***************************************************************************)
EXTENDS Integers, Sequences, FiniteSets, Bags, TLC

VARIABLES
  page,               \* the portal component that is mounted
  profile,            \* useAuth().profile of the signed-in user
  now,                \* the last value read from Date.now()
  toast,              \* the notification the last step raised with toast({...})
  pending,            \* the bag of store / auth / resolver calls awaiting their response
  last,               \* the handler step taken last and the branch it took
  batches,            \* table batches
  processing_steps,   \* table processing_steps
  products,           \* table products
  quality_tests,      \* table quality_tests
  herbs,              \* table herbs
  compliance_rules,   \* table compliance_rules
  collectors,         \* table collectors
  collection_events,  \* table collection_events
  consumer,           \* React state of ConsumerPortal
  factory,            \* React state of FactoryPortal
  lab,                \* React state of LabPortal
  collector,          \* React state of CollectorPortal
  admin,              \* React state of AdminPortal
  auth,               \* React state of AuthForm
  codec,              \* a payload being encoded and decoded (codec runs)
  resolver            \* a resolution of getQRCodeData, read by read

storeVars == <<batches, processing_steps, products, quality_tests, herbs,
               compliance_rules, collectors, collection_events>>
uiVars == <<consumer, factory, lab, collector, admin, auth>>
vars == <<page, profile, now, toast, pending, last, storeVars, uiVars, codec,
          resolver>>

----------------------------------------------------------------------------
(* Bounds of the model *)

MaxPidLen == 1      \* longest free-form productId of a codec payload
MaxBidLen == 1      \* longest batch id of a codec payload
MaxBatchIds == 2    \* most batch ids in a codec payload
MaxInFlight == 2    \* most calls awaiting a response at once
MaxClock == 1       \* Date.now() ranges over 0..MaxClock
MaxInserts == 2     \* most rows a page adds to the store

----------------------------------------------------------------------------
(* Text *)

Sep == "|"
Esc == "~"
Space == " "

RECURSIVE SeqsUpTo(_, _)
SeqsUpTo(S, n) ==
  IF n = 0 THEN {<<>>}
  ELSE LET shorter == SeqsUpTo(S, n - 1)
       IN  shorter \cup {Append(s, c) : s \in {t \in shorter : Len(t) = n - 1}, c \in S}

RECURSIVE TrimLeft(_)
TrimLeft(s) ==
  IF s # <<>> /\ Head(s) = Space THEN TrimLeft(Tail(s)) ELSE s

RECURSIVE TrimRight(_)
TrimRight(s) ==
  IF s # <<>> /\ s[Len(s)] = Space THEN TrimRight(SubSeq(s, 1, Len(s) - 1)) ELSE s

\* a trim of the leading blanks alone
TrimLeading(s) == TrimLeft(s)

\* String.prototype.trim
Trim(s) == TrimRight(TrimLeft(s))

DigitChars == <<"0", "1", "2", "3", "4", "5", "6", "7", "8", "9">>
DigitValue(c) == (CHOOSE i \in 1..10 : DigitChars[i] = c) - 1

\* `${n}` for a non-negative integer
RECURSIVE Digits(_)
Digits(n) ==
  IF n < 10 THEN <<DigitChars[n + 1]>>
  ELSE Digits(n \div 10) \o <<DigitChars[(n % 10) + 1]>>

----------------------------------------------------------------------------
(* 4.1 QR token codec (utils/blockchain: generateQRCode and the decoding   *)
(* half of getQRCodeData)                                                  *)
(*                                                                         *)
(* A token is the payload's fields in order (type, productId, then each    *)
(* batch id), each field escaped and closed by Sep.                        *)

\* a field with every Sep and Esc of it prefixed by Esc
RECURSIVE EscapeField(_)
EscapeField(s) ==
  IF s = <<>> THEN <<>>
  ELSE (IF Head(s) \in {Sep, Esc} THEN <<Esc, Head(s)>> ELSE <<Head(s)>>)
       \o EscapeField(Tail(s))

\* a broken encoder: the fields are joined as they are
RECURSIVE EncodeFieldsRaw(_)
EncodeFieldsRaw(fs) ==
  IF fs = <<>> THEN <<>>
  ELSE Head(fs) \o <<Sep>> \o EncodeFieldsRaw(Tail(fs))

RECURSIVE EncodeFields(_)
EncodeFields(fs) ==
  IF fs = <<>> THEN <<>>
  ELSE EscapeField(Head(fs)) \o <<Sep>> \o EncodeFields(Tail(fs))

\* encode(payload)
generateQRCode(p) == EncodeFields(<<p.type, p.productId>> \o p.batchIds)

MalformedToken == [ok |-> FALSE]

\* the fields of a token, or MalformedToken: a dangling or misplaced Esc,
\* or text after the last Sep
RECURSIVE DecodeFields(_, _, _)
DecodeFields(s, cur, fields) ==
  IF s = <<>>
  THEN IF cur = <<>> THEN [ok |-> TRUE, fields |-> fields] ELSE MalformedToken
  ELSE IF Head(s) = Esc
       THEN IF Len(s) >= 2 /\ s[2] \in {Sep, Esc}
            THEN DecodeFields(SubSeq(s, 3, Len(s)), Append(cur, s[2]), fields)
            ELSE MalformedToken
       ELSE IF Head(s) = Sep
            THEN DecodeFields(Tail(s), <<>>, Append(fields, cur))
            ELSE DecodeFields(Tail(s), Append(cur, Head(s)), fields)

\* decode(token)
decodeQRCode(t) ==
  LET r == DecodeFields(t, <<>>, <<>>)
  IN  IF r.ok /\ Len(r.fields) >= 2
      THEN [ok |-> TRUE,
            payload |-> [type |-> r.fields[1],
                         productId |-> r.fields[2],
                         batchIds |-> SubSeq(r.fields, 3, Len(r.fields))]]
      ELSE MalformedToken

TypeProduct == <<"p", "r", "o", "d", "u", "c", "t">>

\* `PROD_${Date.now()}`
ProductId(t) == <<"P", "R", "O", "D", "_">> \o Digits(t)

\* the payload createProduct passes to generateQRCode
QRPayload(t, batchIds) ==
  [type |-> TypeProduct, productId |-> ProductId(t), batchIds |-> batchIds]


----------------------------------------------------------------------------
(* Row store: each table is the sequence of its rows, in insertion order   *)

Null == [null |-> TRUE]
NoToast == [title |-> "", description |-> "", variant |-> ""]
Range(f) == {f[i] : i \in DOMAIN f}

B1 == <<"b", "1">>
B2 == <<"b", "2">>
H1 == "herb-1"
LabId == "lab-1"
OtherLabId == "lab-2"
FactoryId == "factory-1"
CollectorProfileId == "profile-1"
SomeDate == "2024-01-01"

BatchRow(id, status) ==
  [id |-> id, batch_id |-> id, batch_status |-> status, herb_id |-> H1,
   total_quantity_kg |-> 10]

StepRow(id, batch, processor, ptype, qty, done) ==
  [id |-> id, batch_id |-> batch, processor_id |-> processor,
   process_type |-> ptype, input_quantity_kg |-> qty,
   completion_date |-> done]

TestRow(id, batch, labId, status) ==
  [id |-> id, batch_id |-> batch, lab_id |-> labId, test_status |-> status,
   test_results |-> Null,
   completion_date |-> IF status = "completed" THEN SomeDate ELSE ""]

HerbRow(id, botanical, local) ==
  [id |-> id, botanical_name |-> botanical, local_name |-> local]

\* the rows the store holds when a portal is mounted: an approved batch and
\* one awaiting approval, a herb, and two completed steps of the factory user
\* on one batch
InitialBatches == <<BatchRow(B1, "approved"), BatchRow(B2, "pending")>>
InitialHerbs == <<HerbRow(H1, "Withania somnifera", "Ashwagandha")>>
InitialSteps ==
  <<StepRow(1, B1, FactoryId, "drying", 5, SomeDate),
    StepRow(2, B1, FactoryId, "drying", 5, SomeDate)>>

----------------------------------------------------------------------------
(* 4.2 Traceability aggregator (utils/blockchain: getQRCodeData)           *)

NotFound == [error |-> "NotFound"]
FetchError == "FetchError"

\* step 2: the Product rows whose stored QR value is the token
ProductsByToken(t) == SelectSeq(products, LAMBDA p : p.qr_code = t)

\* step 3: the Batch rows a product's batch_ids name
FetchBatches(p) == SelectSeq(batches, LAMBDA b : b.id \in Range(p.batch_ids))

\* step 5 with the batch filter left out
FetchQualityTestsAll(bs) == quality_tests

\* step 5: the QualityTest rows of the resolved batches
FetchQualityTests(bs) ==
  SelectSeq(quality_tests, LAMBDA t : t.batch_id \in {bs[i].id : i \in DOMAIN bs})

\* step 4: the CollectionEvent rows of the herbs of the resolved batches
FetchCollections(bs) ==
  SelectSeq(collection_events,
            LAMBDA e : e.herb_id \in {bs[i].herb_id : i \in DOMAIN bs})

\* step 6: the ProcessingStep rows of the resolved batches
FetchProcessingSteps(bs) ==
  SelectSeq(processing_steps,
            LAMBDA st : st.batch_id \in {bs[i].id : i \in DOMAIN bs})

\* step 7: the composed trace result
TraceOf(p) ==
  LET bs == FetchBatches(p)
  IN  [error |-> "",
       product |-> p,
       batches |-> bs,
       collections |-> FetchCollections(bs),
       qualityTests |-> FetchQualityTests(bs),
       processingSteps |-> FetchProcessingSteps(bs)]

\* resolve(token) when every read is answered: the results it can return
\* (one per Product row holding the token)
resolve(t) ==
  IF ~decodeQRCode(t).ok THEN {NotFound}
  ELSE LET ps == ProductsByToken(t)
       IN  IF ps = <<>> THEN {NotFound}
           ELSE {TraceOf(ps[i]) : i \in DOMAIN ps}

\* what a call of getQRCodeData can end with: a result of resolve, or, once a
\* read has been issued, the fetch error of a failed read (thrown, or returned
\* as an error result)
getQRCodeData(t) ==
  {[thrown |-> FALSE, data |-> r] : r \in resolve(t)}
  \cup (IF decodeQRCode(t).ok
        THEN {[thrown |-> TRUE, message |-> FetchError],
              [thrown |-> FALSE, data |-> [error |-> FetchError]]}
        ELSE {})


----------------------------------------------------------------------------
(* Handler steps leave every other component as it is *)

\* the sum of f over a set of calls
RECURSIVE SumOver(_, _)
SumOver(S, f) ==
  IF S = {} THEN 0
  ELSE LET x == CHOOSE y \in S : TRUE IN f[x] + SumOver(S \ {x}, f)

Issue(call) == pending (+) SetToBag({call})
Settle(call) == pending (-) SetToBag({call})
Awaiting == BagToSet(pending)
CanIssue == BagCardinality(pending) < MaxInFlight

OnlyConsumer == UNCHANGED <<page, profile, now, storeVars, factory, lab,
                            collector, admin, auth, codec,
   resolver>>

----------------------------------------------------------------------------
(* ConsumerPortal *)

InitConsumer ==
  [qrCode |-> <<>>, traceData |-> Null, loading |-> FALSE, error |-> ""]

MissingToast ==
  [title |-> "Missing QR Code",
   description |-> "Please enter a QR code to scan.",
   variant |-> "destructive"]
NotFoundToast ==
  [title |-> "QR Code not found",
   description |-> "This QR code is not registered in our system.",
   variant |-> "destructive"]
ScannedToast ==
  [title |-> "QR Code scanned successfully!",
   description |-> "Full traceability information loaded.",
   variant |-> ""]
ScanErrorToast(message) ==
  [title |-> "Error scanning QR code", description |-> message,
   variant |-> "destructive"]

\* what the user can type into the scanner: nothing, blanks, text that is no
\* token, a token of no product, and the stored tokens (also with blanks around)
UnregisteredToken == generateQRCode(QRPayload(MaxClock + 1, <<B1>>))
GarbageToken == <<"x", Esc>>
StoredTokens == {products[i].qr_code : i \in DOMAIN products}
ScanInputs ==
  {<<>>, <<Space>>, GarbageToken, UnregisteredToken}
  \cup StoredTokens
  \cup {<<Space>> \o t \o <<Space>> : t \in StoredTokens}

\* onChange of the scanner input
SetQrCode ==
  /\ page = "consumer"
  /\ \E v \in ScanInputs :
       /\ v # consumer.qrCode
       /\ consumer' = [consumer EXCEPT !.qrCode = v]
  /\ last' = [op |-> "input"]
  /\ toast' = NoToast
  /\ UNCHANGED pending
  /\ OnlyConsumer

\* a call of getQRCodeData in flight once a later scan has been submitted
Superseded(c) ==
  IF c.call = "getQRCodeData" THEN [c EXCEPT !.latest = FALSE] ELSE c

\* the calls in flight, none of them the latest scan any more
SupersededCalls ==
  [d \in {Superseded(c) : c \in Awaiting} |->
     SumOver({c \in Awaiting : Superseded(c) = d}, pending)]

\* the trace on display is the one of the token in the input
Displayed(t) ==
  consumer.traceData # Null /\ consumer.traceData.product.qr_code = t

\* a scan that starts without clearing what is on display
ScanStartedKeepingDisplay == [consumer EXCEPT !.loading = TRUE]

\* setLoading(true); setError(''); setTraceData(null)
ScanStarted ==
  [consumer EXCEPT !.loading = TRUE, !.error = "", !.traceData = Null]

\* scanQRCode up to its await; each call in flight records whether it is the
\* latest scan submitted
scanQRCode ==
  IF Trim(consumer.qrCode) = <<>>
  THEN /\ toast' = MissingToast
       /\ last' = [op |-> "scanQRCode", branch |-> "missing"]
       /\ UNCHANGED <<consumer, pending>>
  ELSE /\ CanIssue
       /\ consumer' = ScanStarted
       /\ pending' = SupersededCalls
                       (+) SetToBag({[call |-> "getQRCodeData",
                                      token |-> Trim(consumer.qrCode),
                                      latest |-> TRUE]})
       /\ last' = [op |-> "scanQRCode", branch |-> "awaiting",
                   token |-> Trim(consumer.qrCode),
                   repeated |-> Displayed(Trim(consumer.qrCode))]
       /\ toast' = NoToast

\* the Scan button, disabled while loading
ScanClick ==
  /\ page = "consumer"
  /\ ~consumer.loading
  /\ scanQRCode
  /\ OnlyConsumer

\* Enter in the scanner input
ScanEnter ==
  /\ page = "consumer"
  /\ scanQRCode
  /\ OnlyConsumer

\* the branch scanQRCode takes on a settled call: "catch" for a thrown
\* error, "notfound" for a result with an error, "success" for a trace
ScanBranchThrowing(out) ==
  IF out.thrown \/ out.data.error # "" THEN "catch" ELSE "success"

ScanBranch(out) ==
  IF out.thrown THEN "catch"
  ELSE IF out.data.error # "" THEN "notfound"
  ELSE "success"

\* scanQRCode from its await on
ScanSettled ==
  /\ page = "consumer"
  /\ \E c \in Awaiting :
       /\ c.call = "getQRCodeData"
       /\ \E out \in getQRCodeData(c.token) :
            LET branch == ScanBranch(out)
                message == IF out.thrown THEN out.message ELSE out.data.error
            IN  /\ consumer' =
                     [consumer EXCEPT
                        !.error = IF branch = "success" THEN @ ELSE message,
                        !.traceData = IF branch = "success" THEN out.data ELSE @,
                        !.loading = FALSE]
                /\ toast' = CASE branch = "notfound" -> NotFoundToast
                              [] branch = "success" -> ScannedToast
                              [] OTHER -> ScanErrorToast(message)
                /\ last' = [op |-> "scanQRCode.settled", branch |-> branch,
                            token |-> c.token, latest |-> c.latest,
                            readFailed |-> message = FetchError]
       /\ pending' = Settle(c)
  /\ OnlyConsumer

NextConsumer == SetQrCode \/ ScanClick \/ ScanEnter \/ ScanSettled


----------------------------------------------------------------------------
(* Free-form text fields *)

\* Number.parseInt / parseFloat of the digits a type=number input holds
RECURSIVE ParseNumber(_)
ParseNumber(s) ==
  IF s = <<>> THEN 0
  ELSE 10 * ParseNumber(SubSeq(s, 1, Len(s) - 1)) + DigitValue(s[Len(s)])

\* JSON.parse on the texts the forms are given: an empty object, a number,
\* and anything else is a SyntaxError
JSONparse(s) ==
  IF s = <<"{", "}">> THEN [ok |-> TRUE, value |-> [object |-> TRUE]]
  ELSE IF s # <<>> /\ \A i \in DOMAIN s : s[i] \in Range(DigitChars)
       THEN [ok |-> TRUE, value |-> [number |-> ParseNumber(s)]]
       ELSE [ok |-> FALSE]

JsonInputs == {<<>>, <<"{", "}">>, <<"{">>}
BlankOrBadJson == {<<>>, <<"{">>}
QuantityInputs == {<<>>, <<"5">>}

\* x || '{}'
OrEmptyObject(s) == IF s = <<>> THEN <<"{", "}">> ELSE s

ErrorToast(description) ==
  [title |-> "Error", description |-> description, variant |-> "destructive"]
SuccessToast(description) ==
  [title |-> "Success", description |-> description, variant |-> ""]
RequiredToast == ErrorToast("Please fill all required fields")

\* the inserts on a table that await their response
PendingInserts == SumOver({c \in Awaiting : c.call = "insert"}, pending)

StoreSize ==
  Len(batches) + Len(processing_steps) + Len(products) + Len(quality_tests)
  + Len(herbs) + Len(compliance_rules) + Len(collectors)
  + Len(collection_events)

\* the rows of the store at the mount of the page
InitialStoreSize ==
  CASE page = "factory" -> Len(InitialBatches) + Len(InitialSteps)
    [] page = "collector" -> Len(InitialBatches) + Len(InitialHerbs)
    [] OTHER -> Len(InitialBatches)

\* the store takes a row more, counting the inserts under way
Room == StoreSize + PendingInserts < InitialStoreSize + MaxInserts


----------------------------------------------------------------------------
(* FactoryPortal *)

OnlyFactory == UNCHANGED <<page, profile, consumer, lab, collector, admin,
                           auth, codec,
   resolver>>

\* the select fields product_type and unit_type go into the row unread and
\* are left out
EmptyProcessForm ==
  [process_type |-> "", input_quantity_kg |-> <<>>,
   process_parameters |-> <<>>, process_conditions |-> <<>>]
EmptyProductForm ==
  [product_name |-> "", final_quantity |-> <<>>, formulation_details |-> <<>>]

InitFactory ==
  [availableBatches |-> <<>>, processingSteps |-> <<>>,
   selectedBatch |-> Null, processForm |-> EmptyProcessForm,
   productForm |-> EmptyProductForm, showProductForm |-> FALSE,
   loading |-> TRUE]

ProcessFieldInputs ==
  [process_type |-> {"", "drying"}, input_quantity_kg |-> QuantityInputs,
   process_parameters |-> BlankOrBadJson, process_conditions |-> BlankOrBadJson]
ProductFieldInputs ==
  [product_name |-> {"", "Ashwagandha Tablets"},
   final_quantity |-> QuantityInputs,
   formulation_details |-> BlankOrBadJson]

\* the ordered read of batches with the status filter left out
AllBatches == batches

\* from('batches').select(...).eq('batch_status', 'approved')
ApprovedBatches == SelectSeq(batches, LAMBDA b : b.batch_status = "approved")

\* the first read of fetchData, as issued
FetchDataCall == [call |-> "fetchData", stage |-> "batches"]

\* fetchData: the read of the approved batches is answered
FactoryFetchBatches ==
  /\ page = "factory"
  /\ \E c \in Awaiting :
       /\ c.call = "fetchData" /\ c.stage = "batches"
       /\ \/ /\ pending' =
                  Settle(c) (+) SetToBag({
                     [call |-> "fetchData", stage |-> "steps",
                      batches |-> ApprovedBatches]})
             /\ last' = [op |-> "fetchData", branch |-> "awaiting"]
             /\ toast' = NoToast
             /\ UNCHANGED factory
          \/ /\ pending' = Settle(c)
             /\ toast' = ErrorToast("Failed to fetch data")
             /\ factory' = [factory EXCEPT !.loading = FALSE]
             /\ last' = [op |-> "fetchData", branch |-> "error"]
  /\ UNCHANGED <<now, storeVars>>
  /\ OnlyFactory

\* fetchData: the read of the processor's steps is answered
FactoryFetchSteps ==
  /\ page = "factory"
  /\ \E c \in Awaiting :
       /\ c.call = "fetchData" /\ c.stage = "steps"
       /\ pending' = Settle(c)
       /\ \/ /\ factory' =
                  [factory EXCEPT
                     !.availableBatches = c.batches,
                     !.processingSteps =
                        SelectSeq(processing_steps,
                                  LAMBDA st : st.processor_id = profile.id),
                     !.loading = FALSE]
             /\ last' = [op |-> "fetchData", branch |-> "ok"]
             /\ toast' = NoToast
          \/ /\ toast' = ErrorToast("Failed to fetch data")
             /\ factory' = [factory EXCEPT !.loading = FALSE]
             /\ last' = [op |-> "fetchData", branch |-> "error"]
  /\ UNCHANGED <<now, storeVars>>
  /\ OnlyFactory

\* a click on a listed batch, or Cancel in the processing form
SelectBatch ==
  /\ page = "factory" /\ ~factory.loading
  /\ \/ \E i \in DOMAIN factory.availableBatches :
          /\ factory.selectedBatch # factory.availableBatches[i]
          /\ factory' = [factory EXCEPT
                           !.selectedBatch = factory.availableBatches[i]]
     \/ /\ factory.selectedBatch # Null
        /\ factory' = [factory EXCEPT !.selectedBatch = Null]
  /\ last' = [op |-> "input"]
  /\ toast' = NoToast
  /\ UNCHANGED <<now, pending, storeVars>>
  /\ OnlyFactory

\* onChange of a field of the processing form (rendered for a selected batch)
SetProcessForm ==
  /\ page = "factory" /\ ~factory.loading
  /\ factory.selectedBatch # Null
  /\ \E f \in DOMAIN ProcessFieldInputs : \E v \in ProcessFieldInputs[f] :
       /\ factory.processForm[f] # v
       /\ factory' = [factory EXCEPT !.processForm[f] = v]
  /\ last' = [op |-> "input"]
  /\ toast' = NoToast
  /\ UNCHANGED <<now, pending, storeVars>>
  /\ OnlyFactory

\* the Create Product button and the modal's Cancel
ShowProductForm ==
  /\ page = "factory" /\ ~factory.loading
  /\ factory' = [factory EXCEPT !.showProductForm = ~@]
  /\ last' = [op |-> "input"]
  /\ toast' = NoToast
  /\ UNCHANGED <<now, pending, storeVars>>
  /\ OnlyFactory

\* onChange of a field of the product form (rendered in the modal)
SetProductForm ==
  /\ page = "factory" /\ ~factory.loading
  /\ factory.showProductForm
  /\ \E f \in DOMAIN ProductFieldInputs : \E v \in ProductFieldInputs[f] :
       /\ factory.productForm[f] # v
       /\ factory' = [factory EXCEPT !.productForm[f] = v]
  /\ last' = [op |-> "input"]
  /\ toast' = NoToast
  /\ UNCHANGED <<now, pending, storeVars>>
  /\ OnlyFactory


\* createProduct's guard with the quantity check left out
MissingProductFieldsNameOnly == factory.productForm.product_name = ""

\* createProcessingStep returns early
MissingProcessFields ==
  \/ factory.selectedBatch = Null
  \/ factory.processForm.process_type = ""
  \/ factory.processForm.input_quantity_kg = <<>>

\* createProduct returns early
MissingProductFields ==
  \/ factory.productForm.product_name = ""
  \/ factory.productForm.final_quantity = <<>>

\* a lenient parse that never throws
ProcessJsonAccepted == TRUE

\* both JSON.parse calls of createProcessingStep return
ProcessJsonParses ==
  /\ JSONparse(OrEmptyObject(factory.processForm.process_parameters)).ok
  /\ JSONparse(OrEmptyObject(factory.processForm.process_conditions)).ok

\* the JSON.parse call of createProduct returns
ProductJsonParses ==
  JSONparse(OrEmptyObject(factory.productForm.formulation_details)).ok

\* createProcessingStep up to its await (Start Processing)
createProcessingStep ==
  /\ page = "factory" /\ ~factory.loading
  /\ factory.selectedBatch # Null
  /\ IF MissingProcessFields
     THEN /\ toast' = RequiredToast
          /\ last' = [op |-> "createProcessingStep", branch |-> "rejected"]
          /\ UNCHANGED pending
     ELSE IF ~ProcessJsonParses
     THEN /\ toast' = ErrorToast("Failed to create processing step")
          /\ last' = [op |-> "createProcessingStep", branch |-> "threw"]
          /\ UNCHANGED pending
     ELSE /\ CanIssue /\ Room
          /\ pending' = Issue(
               [call |-> "insert", table |-> "processing_steps",
                row |-> StepRow(0, factory.selectedBatch.id, profile.id,
                          factory.processForm.process_type,
                          ParseNumber(factory.processForm.input_quantity_kg),
                          "")])
          /\ last' = [op |-> "createProcessingStep", branch |-> "awaiting"]
          /\ toast' = NoToast
  /\ UNCHANGED <<now, storeVars, factory>>
  /\ OnlyFactory

\* createProcessingStep from its await on
createProcessingStepSettled ==
  /\ page = "factory"
  /\ \E c \in Awaiting :
       /\ c.call = "insert" /\ c.table = "processing_steps"
       /\ \/ /\ processing_steps' =
                  Append(processing_steps,
                         [c.row EXCEPT !.id = Len(processing_steps) + 1])
             /\ toast' = SuccessToast("Processing step created successfully")
             /\ factory' = [factory EXCEPT !.processForm = EmptyProcessForm,
                                           !.selectedBatch = Null]
             /\ pending' = Settle(c) (+) SetToBag({FetchDataCall})
             /\ last' = [op |-> "createProcessingStep.settled", branch |-> "ok"]
          \/ /\ toast' = ErrorToast("Failed to create processing step")
             /\ pending' = Settle(c)
             /\ last' = [op |-> "createProcessingStep.settled",
                         branch |-> "error"]
             /\ UNCHANGED <<processing_steps, factory>>
  /\ UNCHANGED <<now, batches, products, quality_tests, herbs,
                 compliance_rules, collectors, collection_events>>
  /\ OnlyFactory

\* the batch ids of the completed steps of the displayed history
CompletedBatchIds ==
  LET done == SelectSeq(factory.processingSteps,
                        LAMBDA st : st.completion_date # "")
  IN  [i \in DOMAIN done |-> done[i].batch_id]

\* the Product row createProduct inserts
ProductRow(manufacturer, form, t, batchIds) ==
  [manufacturer_id |-> manufacturer,
   product_name |-> form.product_name,
   final_quantity |-> ParseNumber(form.final_quantity),
   formulation_details |-> JSONparse(OrEmptyObject(form.formulation_details)).value,
   batch_ids |-> batchIds,
   qr_code |-> generateQRCode(QRPayload(t, batchIds))]

\* a clock that never reads the same millisecond twice
ClockReadingsDistinct == (now + 1)..MaxClock

\* what Date.now() can read: the millisecond of the last reading or a later one
ClockReadings == now..MaxClock

\* createProduct up to its await (Create Product in the modal)
createProduct ==
  /\ page = "factory" /\ ~factory.loading
  /\ factory.showProductForm
  /\ IF MissingProductFields
     THEN /\ toast' = RequiredToast
          /\ last' = [op |-> "createProduct", branch |-> "rejected"]
          /\ UNCHANGED <<now, pending>>
     ELSE IF ~ProductJsonParses
     THEN /\ toast' = ErrorToast("Failed to create product")
          /\ last' = [op |-> "createProduct", branch |-> "threw"]
          /\ UNCHANGED <<now, pending>>
     ELSE /\ CanIssue /\ Room
          /\ \E t \in ClockReadings :
               /\ now' = t
               /\ pending' = Issue(
                    [call |-> "insert", table |-> "products",
                     row |-> ProductRow(profile.id, factory.productForm, t,
                                       CompletedBatchIds)])
          /\ last' = [op |-> "createProduct", branch |-> "awaiting"]
          /\ toast' = NoToast
  /\ UNCHANGED <<storeVars, factory>>
  /\ OnlyFactory

\* createProduct from its await on
createProductSettled ==
  /\ page = "factory"
  /\ \E c \in Awaiting :
       /\ c.call = "insert" /\ c.table = "products"
       /\ pending' = Settle(c)
       /\ \/ /\ products' = Append(products, c.row)
             /\ toast' = SuccessToast("Product created successfully with QR code")
             /\ factory' = [factory EXCEPT !.productForm = EmptyProductForm,
                                           !.showProductForm = FALSE]
             /\ last' = [op |-> "createProduct.settled", branch |-> "ok"]
          \/ /\ toast' = ErrorToast("Failed to create product")
             /\ last' = [op |-> "createProduct.settled", branch |-> "error"]
             /\ UNCHANGED <<products, factory>>
  /\ UNCHANGED <<now, batches, processing_steps, quality_tests, herbs,
                 compliance_rules, collectors, collection_events>>
  /\ OnlyFactory

NextFactory ==
  \/ FactoryFetchBatches \/ FactoryFetchSteps
  \/ SelectBatch \/ SetProcessForm \/ ShowProductForm \/ SetProductForm
  \/ createProcessingStep \/ createProcessingStepSettled
  \/ createProduct \/ createProductSettled


----------------------------------------------------------------------------
(* CollectorPortal (second component of pages/LabPortal.tsx) *)

OnlyCollector == UNCHANGED <<page, profile, now, consumer, factory, lab,
                             admin, auth, codec,
   resolver>>

\* environmental_data and storage_conditions go into the row unread once
\* parsed and are left out of the stored row
EmptyCollectionForm ==
  [herb_id |-> "", quantity_kg |-> <<>>, plant_part |-> "",
   harvest_season |-> "", initial_condition |-> "",
   environmental_data |-> <<>>, storage_conditions |-> <<>>]

InitCollector ==
  [herbs |-> <<>>, collectionEvents |-> <<>>, collector |-> Null,
   location |-> Null, showCollectionForm |-> FALSE,
   collectionForm |-> EmptyCollectionForm, loading |-> TRUE]

CollectionFieldInputs ==
  [herb_id |-> {""} \cup {collector.herbs[i].id : i \in DOMAIN collector.herbs},
   quantity_kg |-> QuantityInputs,
   plant_part |-> {"", "root"},
   harvest_season |-> {"", "spring"},
   initial_condition |-> {"", "fresh"},
   environmental_data |-> JsonInputs,
   storage_conditions |-> BlankOrBadJson]

CollectorFetchCall == [call |-> "fetchData", stage |-> "collector"]
LocationCall == [call |-> "getCurrentPosition"]

\* .eq('profile_id', profile.id).single(): the row when there is exactly one;
\* none or several come back as error PGRST116, which fetchData lets pass
CollectorOfProfile ==
  LET rows == SelectSeq(collectors, LAMBDA r : r.profile_id = profile.id)
  IN  IF Len(rows) = 1 THEN rows[1] ELSE Null

\* a catch that empties the lists
CollectorFetchFailedClearing(c) ==
  /\ pending' = Settle(c)
  /\ toast' = ErrorToast("Failed to fetch data")
  /\ collector' = [collector EXCEPT !.herbs = <<>>,
                                    !.collectionEvents = <<>>,
                                    !.loading = FALSE]
  /\ last' = [op |-> "fetchData", branch |-> "error"]

\* fetchData's catch and finally
CollectorFetchFailed(c) ==
  /\ pending' = Settle(c)
  /\ toast' = ErrorToast("Failed to fetch data")
  /\ collector' = [collector EXCEPT !.loading = FALSE]
  /\ last' = [op |-> "fetchData", branch |-> "error"]

\* fetchData's three setters and finally
CollectorFetchDone(c, collectorData, herbsData, eventsData) ==
  /\ pending' = Settle(c)
  /\ toast' = NoToast
  /\ collector' = [collector EXCEPT !.collector = collectorData,
                                    !.herbs = herbsData,
                                    !.collectionEvents = eventsData,
                                    !.loading = FALSE]
  /\ last' = [op |-> "fetchData", branch |-> "ok"]

\* fetchData: the read of the collector row is answered
CollectorFetchCollector ==
  /\ page = "collector"
  /\ \E c \in Awaiting :
       /\ c.call = "fetchData" /\ c.stage = "collector"
       /\ \/ /\ pending' = Settle(c) (+) SetToBag({
                  [call |-> "fetchData", stage |-> "herbs",
                   collectorData |-> CollectorOfProfile]})
             /\ toast' = NoToast
             /\ last' = [op |-> "fetchData", branch |-> "awaiting"]
             /\ UNCHANGED collector
          \/ CollectorFetchFailed(c)
  /\ UNCHANGED storeVars
  /\ OnlyCollector

\* fetchData: the read of the herbs is answered
CollectorFetchHerbs ==
  /\ page = "collector"
  /\ \E c \in Awaiting :
       /\ c.call = "fetchData" /\ c.stage = "herbs"
       /\ \/ /\ c.collectorData # Null
             /\ pending' = Settle(c) (+) SetToBag({
                  [call |-> "fetchData", stage |-> "events",
                   collectorData |-> c.collectorData, herbsData |-> herbs]})
             /\ toast' = NoToast
             /\ last' = [op |-> "fetchData", branch |-> "awaiting"]
             /\ UNCHANGED collector
          \/ /\ c.collectorData = Null
             /\ CollectorFetchDone(c, Null, herbs, <<>>)
          \/ CollectorFetchFailed(c)
  /\ UNCHANGED storeVars
  /\ OnlyCollector

\* fetchData: the read of the collector's events is answered
CollectorFetchEvents ==
  /\ page = "collector"
  /\ \E c \in Awaiting :
       /\ c.call = "fetchData" /\ c.stage = "events"
       /\ \/ CollectorFetchDone(c, c.collectorData, c.herbsData,
               SelectSeq(collection_events,
                         LAMBDA e : e.collector_id = c.collectorData.id))
          \/ CollectorFetchFailed(c)
  /\ UNCHANGED storeVars
  /\ OnlyCollector

\* getCurrentLocation's callbacks
LocationSettled ==
  /\ page = "collector"
  /\ LocationCall \in Awaiting
  /\ pending' = Settle(LocationCall)
  /\ \/ /\ collector' = [collector EXCEPT !.location = [lat |-> 1, lng |-> 1]]
        /\ toast' = NoToast
        /\ last' = [op |-> "getCurrentLocation", branch |-> "ok"]
     \/ /\ toast' = [title |-> "Location Error",
                     description |-> "Unable to get current location. Please enable location services.",
                     variant |-> "destructive"]
        /\ last' = [op |-> "getCurrentLocation", branch |-> "error"]
        /\ UNCHANGED collector
  /\ UNCHANGED storeVars
  /\ OnlyCollector

\* createCollectorProfile up to its await (rendered while no collector is known)
createCollectorProfile ==
  /\ page = "collector" /\ ~collector.loading
  /\ collector.collector = Null
  /\ CanIssue /\ Room
  /\ pending' = Issue(
       [call |-> "insert", table |-> "collectors",
        row |-> [id |-> 0, profile_id |-> profile.id,
                 collector_type |-> IF profile.role = "farmer" THEN "farmer"
                                    ELSE "wild_collector",
                 verification_status |-> "pending",
                 aadhaar_id |-> profile.aadhaar_id,
                 cooperative_id |-> profile.cooperative_group]])
  /\ toast' = NoToast
  /\ last' = [op |-> "createCollectorProfile", branch |-> "awaiting"]
  /\ UNCHANGED <<storeVars, collector>>
  /\ OnlyCollector

\* createCollectorProfile from its await on
createCollectorProfileSettled ==
  /\ page = "collector"
  /\ \E c \in Awaiting :
       /\ c.call = "insert" /\ c.table = "collectors"
       /\ pending' = Settle(c)
       /\ \/ LET row == [c.row EXCEPT !.id = Len(collectors) + 1]
             IN  /\ collectors' = Append(collectors, row)
                 /\ collector' = [collector EXCEPT !.collector = row]
                 /\ toast' = SuccessToast("Collector profile created successfully")
                 /\ last' = [op |-> "createCollectorProfile.settled",
                             branch |-> "ok"]
          \/ /\ toast' = ErrorToast("Failed to create collector profile")
             /\ last' = [op |-> "createCollectorProfile.settled",
                         branch |-> "error"]
             /\ UNCHANGED <<collectors, collector>>
  /\ UNCHANGED <<batches, processing_steps, products, quality_tests, herbs,
                 compliance_rules, collection_events>>
  /\ OnlyCollector

\* the portal proper is rendered: loaded, with a collector row
CollectorRendered ==
  page = "collector" /\ ~collector.loading /\ collector.collector # Null

\* the Record Collection button and the modal's Cancel
ShowCollectionForm ==
  /\ CollectorRendered
  /\ collector' = [collector EXCEPT !.showCollectionForm = ~@]
  /\ toast' = NoToast
  /\ last' = [op |-> "input"]
  /\ UNCHANGED <<pending, storeVars>>
  /\ OnlyCollector

\* onChange of a field of the collection form (rendered in the modal)
SetCollectionForm ==
  /\ CollectorRendered
  /\ collector.showCollectionForm
  /\ \E f \in DOMAIN CollectionFieldInputs : \E v \in CollectionFieldInputs[f] :
       /\ collector.collectionForm[f] # v
       /\ collector' = [collector EXCEPT !.collectionForm[f] = v]
  /\ toast' = NoToast
  /\ last' = [op |-> "input"]
  /\ UNCHANGED <<pending, storeVars>>
  /\ OnlyCollector

\* recordCollection's guard with the quantity check left out
MissingCollectionFieldsHerbOnly ==
  \/ collector.collector = Null
  \/ collector.location = Null
  \/ collector.collectionForm.herb_id = ""

\* recordCollection returns early
MissingCollectionFields ==
  \/ collector.collector = Null
  \/ collector.location = Null
  \/ collector.collectionForm.herb_id = ""
  \/ collector.collectionForm.quantity_kg = <<>>

\* x ? JSON.parse(x) : null returns
ParsesOrBlank(s) == s = <<>> \/ JSONparse(s).ok

\* both JSON texts of the collection form parse
CollectionJsonParses ==
  /\ ParsesOrBlank(collector.collectionForm.environmental_data)
  /\ ParsesOrBlank(collector.collectionForm.storage_conditions)

\* recordCollection up to its await (Record in the modal, disabled without
\* a location)
recordCollection ==
  /\ CollectorRendered
  /\ collector.showCollectionForm
  /\ collector.location # Null
  /\ IF MissingCollectionFields
     THEN /\ toast' = ErrorToast("Please fill all required fields and ensure location is available")
          /\ last' = [op |-> "recordCollection", branch |-> "rejected"]
          /\ UNCHANGED pending
     ELSE IF ~CollectionJsonParses
     THEN /\ toast' = ErrorToast("Failed to record collection event")
          /\ last' = [op |-> "recordCollection", branch |-> "threw"]
          /\ UNCHANGED pending
     ELSE /\ CanIssue /\ Room
          /\ pending' = Issue(
               [call |-> "insert", table |-> "collection_events",
                row |-> [id |-> 0,
                         collector_id |-> collector.collector.id,
                         herb_id |-> collector.collectionForm.herb_id,
                         quantity_kg |-> ParseNumber(collector.collectionForm.quantity_kg),
                         latitude |-> collector.location.lat,
                         longitude |-> collector.location.lng,
                         plant_part |-> collector.collectionForm.plant_part,
                         harvest_season |-> collector.collectionForm.harvest_season,
                         initial_condition |-> collector.collectionForm.initial_condition]])
          /\ toast' = NoToast
          /\ last' = [op |-> "recordCollection", branch |-> "awaiting"]
  /\ UNCHANGED <<storeVars, collector>>
  /\ OnlyCollector

\* an insert that stores the row twice
InsertCollectionEventTwice(row) ==
  collection_events
  \o <<[row EXCEPT !.id = Len(collection_events) + 1],
       [row EXCEPT !.id = Len(collection_events) + 2]>>

\* from('collection_events').insert([row]): the table with the row added
InsertCollectionEvent(row) ==
  Append(collection_events, [row EXCEPT !.id = Len(collection_events) + 1])

\* recordCollection from its await on
recordCollectionSettled ==
  /\ page = "collector"
  /\ \E c \in Awaiting :
       /\ c.call = "insert" /\ c.table = "collection_events"
       /\ \/ /\ collection_events' = InsertCollectionEvent(c.row)
             /\ toast' = SuccessToast("Collection event recorded successfully")
             /\ collector' = [collector EXCEPT
                                !.collectionForm = EmptyCollectionForm,
                                !.showCollectionForm = FALSE]
             /\ pending' = Settle(c) (+) SetToBag({CollectorFetchCall})
             /\ last' = [op |-> "recordCollection.settled", branch |-> "ok"]
          \/ /\ toast' = ErrorToast("Failed to record collection event")
             /\ pending' = Settle(c)
             /\ last' = [op |-> "recordCollection.settled", branch |-> "error"]
             /\ UNCHANGED <<collection_events, collector>>
  /\ UNCHANGED <<batches, processing_steps, products, quality_tests, herbs,
                 compliance_rules, collectors>>
  /\ OnlyCollector

NextCollector ==
  \/ CollectorFetchCollector \/ CollectorFetchHerbs \/ CollectorFetchEvents
  \/ LocationSettled
  \/ createCollectorProfile \/ createCollectorProfileSettled
  \/ ShowCollectionForm \/ SetCollectionForm
  \/ recordCollection \/ recordCollectionSettled

----------------------------------------------------------------------------
(* AdminPortal *)

OnlyAdmin == UNCHANGED <<page, profile, now, consumer, factory, lab,
                         collector, auth, codec,
   resolver>>

\* the optional herb fields (plant_family, conservation_status and the three
\* comma-separated lists) are copied into the row and are left out
EmptyHerbForm == [botanical_name |-> "", local_name |-> ""]
EmptyRuleForm == [herb_id |-> "", rule_type |-> "", rule_parameters |-> <<>>]

InitAdmin ==
  [herbs |-> <<>>, complianceRules |-> <<>>, loading |-> TRUE,
   showHerbForm |-> FALSE, showRuleForm |-> FALSE,
   herbForm |-> EmptyHerbForm, ruleForm |-> EmptyRuleForm]

HerbFieldInputs ==
  [botanical_name |-> {"", "Withania somnifera"},
   local_name |-> {"", "Ashwagandha"}]

RuleFieldInputs ==
  [herb_id |-> {""} \cup {admin.herbs[i].id : i \in DOMAIN admin.herbs},
   rule_type |-> {"", "seasonal"},
   rule_parameters |-> JsonInputs]

AdminFetchCall == [call |-> "fetchData", stage |-> "herbs"]

\* fetchData: the reads of the profiles and of the herbs are answered
AdminFetchHerbs ==
  /\ page = "admin"
  /\ \E c \in Awaiting :
       /\ c.call = "fetchData" /\ c.stage = "herbs"
       /\ \/ /\ pending' = Settle(c) (+) SetToBag({
                  [call |-> "fetchData", stage |-> "rules",
                   herbsData |-> herbs]})
             /\ toast' = NoToast
             /\ last' = [op |-> "fetchData", branch |-> "awaiting"]
             /\ UNCHANGED admin
          \/ /\ pending' = Settle(c)
             /\ toast' = ErrorToast("Failed to fetch admin data")
             /\ admin' = [admin EXCEPT !.loading = FALSE]
             /\ last' = [op |-> "fetchData", branch |-> "error"]
  /\ UNCHANGED storeVars
  /\ OnlyAdmin

\* fetchData: the read of the compliance rules is answered
AdminFetchRules ==
  /\ page = "admin"
  /\ \E c \in Awaiting :
       /\ c.call = "fetchData" /\ c.stage = "rules"
       /\ pending' = Settle(c)
       /\ \/ /\ admin' = [admin EXCEPT !.herbs = c.herbsData,
                                       !.complianceRules = compliance_rules,
                                       !.loading = FALSE]
             /\ toast' = NoToast
             /\ last' = [op |-> "fetchData", branch |-> "ok"]
          \/ /\ toast' = ErrorToast("Failed to fetch admin data")
             /\ admin' = [admin EXCEPT !.loading = FALSE]
             /\ last' = [op |-> "fetchData", branch |-> "error"]
  /\ UNCHANGED storeVars
  /\ OnlyAdmin

\* Add New Herb and the herb modal's Cancel
ShowHerbForm ==
  /\ page = "admin" /\ ~admin.loading
  /\ admin' = [admin EXCEPT !.showHerbForm = ~@]
  /\ toast' = NoToast
  /\ last' = [op |-> "input"]
  /\ UNCHANGED <<pending, storeVars>>
  /\ OnlyAdmin

\* onChange of a field of the herb form
SetHerbForm ==
  /\ page = "admin" /\ ~admin.loading /\ admin.showHerbForm
  /\ \E f \in DOMAIN HerbFieldInputs : \E v \in HerbFieldInputs[f] :
       /\ admin.herbForm[f] # v
       /\ admin' = [admin EXCEPT !.herbForm[f] = v]
  /\ toast' = NoToast
  /\ last' = [op |-> "input"]
  /\ UNCHANGED <<pending, storeVars>>
  /\ OnlyAdmin

\* Create Compliance Rule and the rule modal's Cancel
ShowRuleForm ==
  /\ page = "admin" /\ ~admin.loading
  /\ admin' = [admin EXCEPT !.showRuleForm = ~@]
  /\ toast' = NoToast
  /\ last' = [op |-> "input"]
  /\ UNCHANGED <<pending, storeVars>>
  /\ OnlyAdmin

\* onChange of a field of the rule form
SetRuleForm ==
  /\ page = "admin" /\ ~admin.loading /\ admin.showRuleForm
  /\ \E f \in DOMAIN RuleFieldInputs : \E v \in RuleFieldInputs[f] :
       /\ admin.ruleForm[f] # v
       /\ admin' = [admin EXCEPT !.ruleForm[f] = v]
  /\ toast' = NoToast
  /\ last' = [op |-> "input"]
  /\ UNCHANGED <<pending, storeVars>>
  /\ OnlyAdmin

\* createHerb up to its await: the form is sent as it stands
createHerb ==
  /\ page = "admin" /\ ~admin.loading /\ admin.showHerbForm
  /\ CanIssue /\ Room
  /\ pending' = Issue(
       [call |-> "insert", table |-> "herbs",
        row |-> HerbRow("", admin.herbForm.botanical_name,
                        admin.herbForm.local_name)])
  /\ toast' = NoToast
  /\ last' = [op |-> "createHerb", branch |-> "awaiting"]
  /\ UNCHANGED <<storeVars, admin>>
  /\ OnlyAdmin

\* createHerb from its await on
createHerbSettled ==
  /\ page = "admin"
  /\ \E c \in Awaiting :
       /\ c.call = "insert" /\ c.table = "herbs"
       /\ \/ /\ herbs' = Append(herbs, [c.row EXCEPT !.id = H1])
             /\ toast' = SuccessToast("Herb added successfully")
             /\ admin' = [admin EXCEPT !.herbForm = EmptyHerbForm,
                                       !.showHerbForm = FALSE]
             /\ pending' = Settle(c) (+) SetToBag({AdminFetchCall})
             /\ last' = [op |-> "createHerb.settled", branch |-> "ok"]
          \/ /\ toast' = ErrorToast("Failed to create herb")
             /\ pending' = Settle(c)
             /\ last' = [op |-> "createHerb.settled", branch |-> "error"]
             /\ UNCHANGED <<herbs, admin>>
  /\ UNCHANGED <<batches, processing_steps, products, quality_tests,
                 compliance_rules, collectors, collection_events>>
  /\ OnlyAdmin

\* JSON.parse(ruleForm.rule_parameters) returns
RuleJsonParses == JSONparse(admin.ruleForm.rule_parameters).ok

\* createComplianceRule up to its await: the form is sent as it stands once
\* its parameters parse
createComplianceRule ==
  /\ page = "admin" /\ ~admin.loading /\ admin.showRuleForm
  /\ IF ~RuleJsonParses
     THEN /\ toast' = ErrorToast("Failed to create compliance rule")
          /\ last' = [op |-> "createComplianceRule", branch |-> "threw"]
          /\ UNCHANGED pending
     ELSE /\ CanIssue /\ Room
          /\ pending' = Issue(
               [call |-> "insert", table |-> "compliance_rules",
                row |-> [id |-> 0, herb_id |-> admin.ruleForm.herb_id,
                         rule_type |-> admin.ruleForm.rule_type]])
          /\ toast' = NoToast
          /\ last' = [op |-> "createComplianceRule", branch |-> "awaiting"]
  /\ UNCHANGED <<storeVars, admin>>
  /\ OnlyAdmin

\* createComplianceRule from its await on
createComplianceRuleSettled ==
  /\ page = "admin"
  /\ \E c \in Awaiting :
       /\ c.call = "insert" /\ c.table = "compliance_rules"
       /\ \/ /\ compliance_rules' =
                  Append(compliance_rules,
                         [c.row EXCEPT !.id = Len(compliance_rules) + 1])
             /\ toast' = SuccessToast("Compliance rule created successfully")
             /\ admin' = [admin EXCEPT !.ruleForm = EmptyRuleForm,
                                       !.showRuleForm = FALSE]
             /\ pending' = Settle(c) (+) SetToBag({AdminFetchCall})
             /\ last' = [op |-> "createComplianceRule.settled", branch |-> "ok"]
          \/ /\ toast' = ErrorToast("Failed to create compliance rule")
             /\ pending' = Settle(c)
             /\ last' = [op |-> "createComplianceRule.settled",
                         branch |-> "error"]
             /\ UNCHANGED <<compliance_rules, admin>>
  /\ UNCHANGED <<batches, processing_steps, products, quality_tests, herbs,
                 collectors, collection_events>>
  /\ OnlyAdmin

NextAdmin ==
  \/ AdminFetchHerbs \/ AdminFetchRules
  \/ ShowHerbForm \/ SetHerbForm \/ ShowRuleForm \/ SetRuleForm
  \/ createHerb \/ createHerbSettled
  \/ createComplianceRule \/ createComplianceRuleSettled

----------------------------------------------------------------------------
(* LabPortal *)

OnlyLab == UNCHANGED <<page, profile, now, consumer, factory, collector,
                       admin, auth, codec,
   resolver>>

\* of the seven result fields, all plain text stored as typed, one is kept
EmptyTestResults == [overall_grade |-> ""]

\* typedFor is not state of the component: it records the id of the test
\* that was selected when the value now in the results form was typed
InitLab ==
  [qualityTests |-> <<>>, selectedTest |-> Null,
   testResults |-> EmptyTestResults, loading |-> TRUE, typedFor |-> Null]

TestResultInputs == [overall_grade |-> {"", "A"}]

LabFetchCall == [call |-> "fetchQualityTests"]

\* the read of quality_tests with the lab filter left out
TestsOfAnyLab == quality_tests

\* from('quality_tests').select(...).eq('lab_id', profile?.id)
TestsOfLab == SelectSeq(quality_tests, LAMBDA t : t.lab_id = profile.id)

\* fetchQualityTests from its await on
fetchQualityTestsSettled ==
  /\ page = "lab"
  /\ LabFetchCall \in Awaiting
  /\ pending' = Settle(LabFetchCall)
  /\ \/ /\ lab' = [lab EXCEPT
                     !.qualityTests = TestsOfLab,
                     !.loading = FALSE]
        /\ toast' = NoToast
        /\ last' = [op |-> "fetchQualityTests", branch |-> "ok"]
     \/ /\ lab' = [lab EXCEPT !.loading = FALSE]
        /\ toast' = ErrorToast("Failed to fetch quality tests")
        /\ last' = [op |-> "fetchQualityTests", branch |-> "error"]
  /\ UNCHANGED storeVars
  /\ OnlyLab

\* a click on a row of the list
SelectTest ==
  /\ page = "lab" /\ ~lab.loading
  /\ \E i \in DOMAIN lab.qualityTests :
       /\ lab.selectedTest # lab.qualityTests[i]
       /\ lab' = [lab EXCEPT !.selectedTest = lab.qualityTests[i]]
  /\ toast' = NoToast
  /\ last' = [op |-> "input"]
  /\ UNCHANGED <<pending, storeVars>>
  /\ OnlyLab

\* Cancel of the results form
CancelTest ==
  /\ page = "lab" /\ ~lab.loading
  /\ lab.selectedTest # Null
  /\ lab' = [lab EXCEPT !.selectedTest = Null]
  /\ toast' = NoToast
  /\ last' = [op |-> "input"]
  /\ UNCHANGED <<pending, storeVars>>
  /\ OnlyLab

\* onChange of a field of the results form
SetTestResults ==
  /\ page = "lab" /\ ~lab.loading
  /\ lab.selectedTest # Null
  /\ \E f \in DOMAIN TestResultInputs : \E v \in TestResultInputs[f] :
       /\ lab.testResults[f] # v
       /\ lab' = [lab EXCEPT !.testResults[f] = v,
                             !.typedFor = IF v = "" THEN Null
                                          ELSE lab.selectedTest.id]
  /\ toast' = NoToast
  /\ last' = [op |-> "input"]
  /\ UNCHANGED <<pending, storeVars>>
  /\ OnlyLab

\* updateTestResults up to its await (Save Results of the results form)
updateTestResults ==
  /\ page = "lab" /\ ~lab.loading
  /\ lab.selectedTest # Null
  /\ CanIssue
  /\ pending' = Issue(
       [call |-> "update", table |-> "quality_tests",
        id |-> lab.selectedTest.id,
        patch |-> [test_results |-> lab.testResults,
                   test_status |-> "completed",
                   completion_date |-> SomeDate]])
  /\ toast' = NoToast
  /\ last' = [op |-> "updateTestResults", branch |-> "awaiting"]
  /\ UNCHANGED <<storeVars, lab>>
  /\ OnlyLab

\* an update that puts the rows of that id back in the queue
ApplyPatchReopening(rows, id, patch) ==
  [i \in DOMAIN rows |->
     IF rows[i].id = id
     THEN [rows[i] EXCEPT !.test_results = patch.test_results,
                          !.test_status = "pending",
                          !.completion_date = patch.completion_date]
     ELSE rows[i]]

\* update(...).eq('id', id): the rows of that id take the patch
ApplyPatch(rows, id, patch) ==
  [i \in DOMAIN rows |->
     IF rows[i].id = id
     THEN [rows[i] EXCEPT !.test_results = patch.test_results,
                          !.test_status = patch.test_status,
                          !.completion_date = patch.completion_date]
     ELSE rows[i]]

\* updateTestResults from its await on
updateTestResultsSettled ==
  /\ page = "lab"
  /\ \E c \in Awaiting :
       /\ c.call = "update" /\ c.table = "quality_tests"
       /\ \/ /\ quality_tests' = ApplyPatch(quality_tests, c.id, c.patch)
             /\ toast' = SuccessToast("Test results updated successfully")
             /\ lab' = [lab EXCEPT !.selectedTest = Null,
                                   !.testResults = EmptyTestResults,
                                   !.typedFor = Null]
             /\ pending' = Settle(c) (+) SetToBag({LabFetchCall})
             /\ last' = [op |-> "updateTestResults.settled", branch |-> "ok"]
          \/ /\ toast' = ErrorToast("Failed to update test results")
             /\ pending' = Settle(c)
             /\ last' = [op |-> "updateTestResults.settled",
                         branch |-> "error"]
             /\ UNCHANGED <<quality_tests, lab>>
  /\ UNCHANGED <<batches, processing_steps, products, herbs,
                 compliance_rules, collectors, collection_events>>
  /\ OnlyLab

NextLab ==
  \/ fetchQualityTestsSettled
  \/ SelectTest \/ CancelTest \/ SetTestResults
  \/ updateTestResults \/ updateTestResultsSettled

----------------------------------------------------------------------------
(* AuthForm *)

OnlyAuth == UNCHANGED <<page, profile, now, storeVars, consumer, factory,
                        lab, collector, admin, codec,
   resolver>>

\* phone, organization and location are passed through and are left out
EmptyFormData ==
  [email |-> "", password |-> "", full_name |-> "", role |-> "",
   aadhaar_id |-> "", cooperative_group |-> ""]

InitAuth == [isSignIn |-> TRUE, loading |-> FALSE, formData |-> EmptyFormData]

FormDataInputs ==
  [email |-> {"", "a@b.c"}, password |-> {"", "secret"},
   full_name |-> {"", "Asha"}, role |-> {"", "farmer", "lab"},
   aadhaar_id |-> {"", "1234"}, cooperative_group |-> {"", "coop"}]

\* the inputs each tab renders
RenderedInputs ==
  IF auth.isSignIn THEN {"email", "password"}
  ELSE {"email", "password", "full_name", "role"}
       \cup (IF auth.formData.role \in {"farmer", "wild_collector"}
             THEN {"aadhaar_id", "cooperative_group"} ELSE {})

\* the tab switch
SetIsSignIn ==
  /\ page = "auth"
  /\ auth' = [auth EXCEPT !.isSignIn = ~@]
  /\ toast' = NoToast
  /\ last' = [op |-> "input"]
  /\ UNCHANGED pending
  /\ OnlyAuth

\* onChange of an input; the role Select offers the roles only
handleInputChange ==
  /\ page = "auth"
  /\ \E f \in RenderedInputs : \E v \in FormDataInputs[f] :
       /\ auth.formData[f] # v
       /\ f = "role" => v # ""
       /\ auth' = [auth EXCEPT !.formData[f] = v]
  /\ toast' = NoToast
  /\ last' = [op |-> "input"]
  /\ UNCHANGED pending
  /\ OnlyAuth

\* the inputs marked required are filled, so that the form submits
RequiredFilled ==
  /\ auth.formData.email # "" /\ auth.formData.password # ""
  /\ auth.isSignIn \/ auth.formData.full_name # ""

\* a sign-up that does not look at the role
RoleNeverMissing == FALSE

\* if (!formData.role) throw, on the sign-up path
RoleMissing == ~auth.isSignIn /\ auth.formData.role = ""

\* handleSubmit up to its await (the submit button, disabled while loading)
handleSubmit ==
  /\ page = "auth" /\ ~auth.loading
  /\ RequiredFilled
  /\ IF RoleMissing
     THEN /\ toast' = [title |-> "Authentication Error",
                       description |-> "Please select your role",
                       variant |-> "destructive"]
          /\ last' = [op |-> "handleSubmit", branch |-> "threw"]
          /\ UNCHANGED <<pending, auth>>
     ELSE /\ CanIssue
          /\ pending' = Issue(
               IF auth.isSignIn
               THEN [call |-> "signIn", email |-> auth.formData.email]
               ELSE [call |-> "signUp", email |-> auth.formData.email,
                     role |-> auth.formData.role,
                     aadhaar_id |-> auth.formData.aadhaar_id,
                     cooperative_group |-> auth.formData.cooperative_group])
          /\ auth' = [auth EXCEPT !.loading = TRUE]
          /\ toast' = NoToast
          /\ last' = [op |-> "handleSubmit", branch |-> "awaiting"]
  /\ OnlyAuth

\* handleSubmit with its finally block left out
SubmitFinallyMissing == auth

\* handleSubmit's finally block
SubmitFinally == [auth EXCEPT !.loading = FALSE]

\* handleSubmit from its await on
handleSubmitSettled ==
  /\ page = "auth"
  /\ \E c \in Awaiting :
       /\ c.call \in {"signIn", "signUp"}
       /\ pending' = Settle(c)
       /\ auth' = SubmitFinally
       /\ \/ /\ toast' = NoToast
             /\ last' = [op |-> "handleSubmit.settled", branch |-> "ok"]
          \/ /\ toast' = [title |-> "Authentication Error",
                          description |-> "auth provider error",
                          variant |-> "destructive"]
             /\ last' = [op |-> "handleSubmit.settled", branch |-> "error"]
  /\ OnlyAuth

NextAuth ==
  SetIsSignIn \/ handleInputChange \/ handleSubmit \/ handleSubmitSettled

----------------------------------------------------------------------------
(* The codec on its own: a payload is encoded, the token decoded *)

OnlyCodec == UNCHANGED <<page, profile, now, toast, pending, last, storeVars,
                         uiVars, resolver>>

CodecChars == {"a", Sep, Esc}

\* valid payloads: the product tag, an identifier and a list of batch ids,
\* among them the payloads createProduct builds
CodecPayloads ==
  LET ids == SeqsUpTo(CodecChars, MaxBidLen) \cup {B1}
  IN  [type : {TypeProduct},
       productId : SeqsUpTo(CodecChars, MaxPidLen)
                   \cup {ProductId(t) : t \in 0..MaxClock},
       batchIds : SeqsUpTo(ids, MaxBatchIds)]

Encode ==
  /\ page = "codec"
  /\ codec.token = Null
  /\ codec' = [codec EXCEPT !.token = generateQRCode(codec.payload)]
  /\ OnlyCodec

Decode ==
  /\ page = "codec"
  /\ codec.token # Null /\ codec.decoded = Null
  /\ codec' = [codec EXCEPT !.decoded = decodeQRCode(codec.token)]
  /\ OnlyCodec

NextCodec == Encode \/ Decode

----------------------------------------------------------------------------
(* 4.2 A resolution read by read: the lookup of the product, the read of   *)
(* its batches, then the reads of steps 4 to 6 issued together and         *)
(* answered in any order                                                   *)

OnlyResolver == UNCHANGED <<page, profile, now, toast, pending, last,
                            storeVars, uiVars, codec>>

FanOutReads == {"collections", "qualityTests", "processingSteps"}

\* a read that is issued, with no answer yet
IssuedRead == [status |-> "issued", rows |-> <<>>]

InitResolver(t) ==
  [token |-> t, stage |-> "decode", product |-> Null, batches |-> <<>>,
   reads |-> [k \in FanOutReads |-> [status |-> "none", rows |-> <<>>]],
   order |-> <<>>, result |-> Null]

\* the two ways a failed read ends the call: thrown, or returned as an error
FetchFailures ==
  {[thrown |-> TRUE, message |-> FetchError],
   [thrown |-> FALSE, data |-> [error |-> FetchError]]}

\* the call ends with an outcome; reads still under way are abandoned
Finish(out) == [resolver EXCEPT !.stage = "done", !.result = out]

\* step 1: decode the token
ResolveDecode ==
  /\ page = "resolver" /\ resolver.stage = "decode"
  /\ resolver' =
       IF decodeQRCode(resolver.token).ok
       THEN [resolver EXCEPT !.stage = "lookup"]
       ELSE Finish([thrown |-> FALSE, data |-> NotFound])
  /\ OnlyResolver

\* step 2: the read of the Product row is answered
ResolveLookup ==
  /\ page = "resolver" /\ resolver.stage = "lookup"
  /\ \/ \E out \in FetchFailures : resolver' = Finish(out)
     \/ LET ps == ProductsByToken(resolver.token)
        IN  IF ps = <<>>
            THEN resolver' = Finish([thrown |-> FALSE, data |-> NotFound])
            ELSE \E i \in DOMAIN ps :
                   resolver' = [resolver EXCEPT !.stage = "batches",
                                                !.product = ps[i]]
  /\ OnlyResolver

\* step 3: the read of the batches is answered, and the reads of steps 4 to 6
\* are issued
ResolveBatches ==
  /\ page = "resolver" /\ resolver.stage = "batches"
  /\ \/ \E out \in FetchFailures : resolver' = Finish(out)
     \/ resolver' = [resolver EXCEPT
                       !.stage = "fanout",
                       !.batches = FetchBatches(resolver.product),
                       !.reads = [k \in FanOutReads |-> IssuedRead]]
  /\ OnlyResolver

\* the rows a read of steps 4 to 6 returns
ReadRows(k, bs) ==
  CASE k = "collections" -> FetchCollections(bs)
    [] k = "qualityTests" -> FetchQualityTests(bs)
    [] k = "processingSteps" -> FetchProcessingSteps(bs)

\* steps 4 to 6: one of the reads under way is answered
ResolveRead ==
  /\ page = "resolver" /\ resolver.stage = "fanout"
  /\ \E k \in FanOutReads :
       /\ resolver.reads[k].status = "issued"
       /\ \/ \E out \in FetchFailures :
               resolver' = [Finish(out) EXCEPT
                              !.reads[k].status = "failed",
                              !.order = Append(@, k)]
          \/ resolver' = [resolver EXCEPT
                            !.reads[k] = [status |-> "ok",
                                          rows |-> ReadRows(k, resolver.batches)],
                            !.order = Append(@, k)]
  /\ OnlyResolver

\* a composer that does not wait for every read
SomeReadAnswered == \E k \in FanOutReads : resolver.reads[k].status = "ok"

\* the fan-in: every read of steps 4 to 6 is answered
AllReadsAnswered == \A k \in FanOutReads : resolver.reads[k].status = "ok"

\* step 7: the trace result is composed and returned
ResolveCompose ==
  /\ page = "resolver" /\ resolver.stage = "fanout"
  /\ AllReadsAnswered
  /\ resolver' =
       Finish([thrown |-> FALSE,
               data |-> [error |-> "",
                         product |-> resolver.product,
                         batches |-> resolver.batches,
                         collections |-> resolver.reads["collections"].rows,
                         qualityTests |-> resolver.reads["qualityTests"].rows,
                         processingSteps |->
                            resolver.reads["processingSteps"].rows]])
  /\ OnlyResolver

NextResolver ==
  \/ ResolveDecode \/ ResolveLookup \/ ResolveBatches
  \/ ResolveRead \/ ResolveCompose

----------------------------------------------------------------------------
(* Initial states: one portal is mounted, over a store that holds rows     *)
(* written earlier                                                         *)

Profile(id, role) ==
  [id |-> id, role |-> role, aadhaar_id |-> "", cooperative_group |-> ""]


InitUI ==
  /\ consumer = InitConsumer
  /\ factory = InitFactory
  /\ collector = InitCollector
  /\ admin = InitAdmin
  /\ lab = InitLab
  /\ auth = InitAuth
  /\ now = 0
  /\ toast = NoToast
  /\ last = [op |-> "mount"]

InitFactoryPage ==
  /\ page = "factory"
  /\ profile = Profile(FactoryId, "factory")
  /\ pending = SetToBag({FetchDataCall})
  /\ batches = InitialBatches
  /\ processing_steps = InitialSteps
  /\ products = <<>>
  /\ quality_tests = <<>>
  /\ herbs = <<>>
  /\ compliance_rules = <<>>
  /\ collectors = <<>>
  /\ collection_events = <<>>


InitCollectorPage ==
  /\ page = "collector"
  /\ profile = Profile(CollectorProfileId, "farmer")
  /\ pending = SetToBag({CollectorFetchCall, LocationCall})
  /\ batches = InitialBatches
  /\ processing_steps = <<>>
  /\ products = <<>>
  /\ quality_tests = <<>>
  /\ herbs = InitialHerbs
  /\ compliance_rules = <<>>
  /\ collectors = <<>>
  /\ collection_events = <<>>


InitAdminPage ==
  /\ page = "admin"
  /\ profile = Profile("admin-1", "admin")
  /\ pending = SetToBag({AdminFetchCall})
  /\ batches = InitialBatches
  /\ processing_steps = <<>>
  /\ products = <<>>
  /\ quality_tests = <<>>
  /\ herbs = <<>>
  /\ compliance_rules = <<>>
  /\ collectors = <<>>
  /\ collection_events = <<>>

InitLabPage ==
  /\ page = "lab"
  /\ profile = Profile(LabId, "lab")
  /\ pending = SetToBag({LabFetchCall})
  /\ batches = InitialBatches
  /\ processing_steps = <<>>
  /\ products = <<>>
  /\ quality_tests = <<TestRow(1, B1, LabId, "pending"),
                       TestRow(2, B2, LabId, "completed"),
                       TestRow(3, B2, OtherLabId, "pending"),
                       TestRow(4, B1, LabId, "failed")>>
  /\ herbs = <<>>
  /\ compliance_rules = <<>>
  /\ collectors = <<>>
  /\ collection_events = <<>>

InitAuthPage ==
  /\ page = "auth"
  /\ profile = Null
  /\ pending = EmptyBag
  /\ batches = <<>>
  /\ processing_steps = <<>>
  /\ products = <<>>
  /\ quality_tests = <<>>
  /\ herbs = <<>>
  /\ compliance_rules = <<>>
  /\ collectors = <<>>
  /\ collection_events = <<>>

SomeProductForm ==
  [product_name |-> "Churna", final_quantity |-> <<"5">>,
   formulation_details |-> <<>>]

\* a store with two products, one batch tested or both
ConsumerStore ==
  /\ batches = <<BatchRow(B1, "approved"), BatchRow(B2, "approved")>>
  /\ processing_steps = InitialSteps
  /\ products = <<ProductRow(FactoryId, SomeProductForm, 0, <<B1>>),
                  ProductRow(FactoryId, SomeProductForm, 1, <<B1, B2>>)>>
  /\ quality_tests \in
       {<<TestRow(1, B1, LabId, "completed")>>,
        <<TestRow(1, B1, LabId, "completed"),
          TestRow(2, B2, LabId, "pending")>>}
  /\ herbs = <<>>
  /\ compliance_rules = <<>>
  /\ collectors = <<>>
  /\ collection_events = <<>>

\* the scanner over that store
InitConsumerPage ==
  /\ page = "consumer"
  /\ profile = Null
  /\ pending = EmptyBag
  /\ ConsumerStore

\* a call of getQRCodeData over that store, for a token the scanner passes
InitResolverPage ==
  /\ page = "resolver"
  /\ profile = Null
  /\ pending = EmptyBag
  /\ ConsumerStore
  /\ resolver \in {InitResolver(t) :
                     t \in {GarbageToken, UnregisteredToken} \cup StoredTokens}

InitCodecPage ==
  /\ page = "codec"
  /\ profile = Null
  /\ pending = EmptyBag
  /\ batches = <<>>
  /\ processing_steps = <<>>
  /\ products = <<>>
  /\ quality_tests = <<>>
  /\ herbs = <<>>
  /\ compliance_rules = <<>>
  /\ collectors = <<>>
  /\ collection_events = <<>>

Init ==
  /\ InitUI
  /\ \/ /\ \/ InitConsumerPage \/ InitFactoryPage \/ InitLabPage
           \/ InitCollectorPage \/ InitAdminPage \/ InitAuthPage
        /\ codec = Null
        /\ resolver = Null
     \/ /\ InitCodecPage
        /\ codec \in [payload : CodecPayloads, token : {Null},
                       decoded : {Null}]
        /\ resolver = Null
     \/ /\ InitResolverPage
        /\ codec = Null

Next ==
  \/ NextConsumer \/ NextFactory \/ NextLab \/ NextCollector
  \/ NextAdmin \/ NextAuth \/ NextCodec \/ NextResolver

Spec == Init /\ [][Next]_vars

InitCodecOnly == Init /\ page = "codec"
SpecCodec == InitCodecOnly /\ [][NextCodec]_vars
InitConsumerOnly == Init /\ page = "consumer"
SpecConsumer == InitConsumerOnly /\ [][NextConsumer]_vars
InitFactoryOnly == Init /\ page = "factory"
SpecFactory == InitFactoryOnly /\ [][NextFactory]_vars
InitCollectorOnly == Init /\ page = "collector"
SpecCollector == InitCollectorOnly /\ [][NextCollector]_vars
InitAdminOnly == Init /\ page = "admin"
SpecAdmin == InitAdminOnly /\ [][NextAdmin]_vars
InitLabOnly == Init /\ page = "lab"
SpecLab == InitLabOnly /\ [][NextLab]_vars
InitAuthOnly == Init /\ page = "auth"
SpecAuth == InitAuthOnly /\ [][NextAuth]_vars
InitResolverOnly == Init /\ page = "resolver"
SpecResolver == InitResolverOnly /\ [][NextResolver]_vars

----------------------------------------------------------------------------
(* Properties *)

\* C1: decoding the token that encode produces for a valid payload gives back
\* that payload, with its batch ids in the same order: decode(encode(p)) = p.
C1_RoundTrip ==
  (page = "codec" /\ codec.decoded # Null)
    => codec.decoded = [ok |-> TRUE, payload |-> codec.payload]

\* a payload whose fields hold the separator and the escape character has
\* been encoded and decoded
C1_Witness ==
  /\ page = "codec" /\ codec.decoded # Null
  /\ codec.payload.productId = <<Sep>>
  /\ codec.payload.batchIds = <<<<Esc>>, B1>>

\* C2: a scan of a token that is no product's stored qr_code, or that does not
\* decode, ends with traceData = null and a non-empty error, no trace shown.
C2_UnknownScanShowsNoTrace ==
  (page = "consumer" /\ last.op = "scanQRCode.settled"
     /\ last.token \notin StoredTokens)
    => (consumer.traceData = Null /\ consumer.error # "")

\* C3: an unparseable token and a well-formed unregistered one, once the reads
\* of the scan were answered, end in the same branch with the same
\* notification, which is not the one of the thrown-exception branch.
C3_UnknownTokensReportedAlike ==
  (page = "consumer" /\ last.op = "scanQRCode.settled"
     /\ last.token \in {GarbageToken, UnregisteredToken}
     /\ ~last.readFailed)
    => (last.branch = "notfound" /\ toast = NotFoundToast)

\* the scan of a token that does not decode has settled
C3_Witness ==
  /\ page = "consumer" /\ last.op = "scanQRCode.settled"
  /\ last.token = GarbageToken /\ ~last.readFailed
  /\ toast = NotFoundToast

\* C4: for every product createProduct has inserted whose batches all exist,
\* the trace has as many batches as the product's batch_ids has entries.
C4_BatchCountIsBatchIdsLength ==
  \A i \in DOMAIN products :
    Range(products[i].batch_ids) \subseteq {batches[j].id : j \in DOMAIN batches}
      => Len(TraceOf(products[i]).batches) = Len(products[i].batch_ids)

\* C5: the qualityTests of a resolved trace are exactly the quality_tests rows
\* whose batch_id is one of the product's batch_ids, in the store's order.
C5_QualityTestsOfTheBatches ==
  (page = "consumer" /\ consumer.traceData # Null)
    => consumer.traceData.qualityTests =
         SelectSeq(quality_tests,
                   LAMBDA t : t.batch_id
                                \in Range(consumer.traceData.product.batch_ids))

\* the trace of the product of B1 alone is shown while B2 has a test too
C5_Witness ==
  /\ page = "consumer" /\ consumer.traceData # Null
  /\ consumer.traceData.product.batch_ids = <<B1>>
  /\ Len(quality_tests) = 2
  /\ Len(consumer.traceData.qualityTests) = 1

\* C6: recordCollection with an empty quantity_kg issues no insert, raises the
\* error notification and leaves form, modal flag and event list as they were.
C6_EmptyQuantityRejected ==
  [][(last'.op = "recordCollection"
        /\ collector.collectionForm.quantity_kg = <<>>)
       => /\ pending' = pending
          /\ toast' = ErrorToast("Please fill all required fields and ensure location is available")
          /\ collector' = collector
          /\ collection_events' = collection_events]_vars

\* recordCollection has rejected a form that lacks the quantity alone
C6_Witness ==
  /\ page = "collector" /\ last.op = "recordCollection"
  /\ last.branch = "rejected"
  /\ collector.collectionForm.quantity_kg = <<>>
  /\ collector.collectionForm.herb_id # ""
  /\ collector.location # Null

\* C7: a create action issues its insert only with every field its form marks
\* as required set: createHerb with botanical and local name,
\* createComplianceRule with herb and rule type, recordCollection with herb,
\* quantity, plant part, harvest season and initial condition.
C7_InsertOnlyWithRequiredFields ==
  [][/\ (last'.op = "createHerb" /\ last'.branch = "awaiting")
          => (admin.herbForm.botanical_name # ""
              /\ admin.herbForm.local_name # "")
     /\ (last'.op = "createComplianceRule" /\ last'.branch = "awaiting")
          => (admin.ruleForm.herb_id # "" /\ admin.ruleForm.rule_type # "")
     /\ (last'.op = "recordCollection" /\ last'.branch = "awaiting")
          => (/\ collector.collectionForm.herb_id # ""
              /\ collector.collectionForm.quantity_kg # <<>>
              /\ collector.collectionForm.plant_part # ""
              /\ collector.collectionForm.harvest_season # ""
              /\ collector.collectionForm.initial_condition # "")]_vars

\* C8: createProcessingStep with no batch selected or an empty process_type or
\* input_quantity_kg, and createProduct with an empty product_name or
\* final_quantity, issue no store call and leave forms and selection alone.
C8_FactoryValidation ==
  [][/\ (last'.op = "createProcessingStep"
           /\ (\/ factory.selectedBatch = Null
               \/ factory.processForm.process_type = ""
               \/ factory.processForm.input_quantity_kg = <<>>))
          => (pending' = pending /\ factory' = factory
              /\ storeVars' = storeVars)
     /\ (last'.op = "createProduct"
           /\ (\/ factory.productForm.product_name = ""
               \/ factory.productForm.final_quantity = <<>>))
          => (pending' = pending /\ factory' = factory
              /\ storeVars' = storeVars)]_vars

\* createProduct has rejected a form that lacks the final quantity alone
C8_Witness ==
  /\ page = "factory" /\ last.op = "createProduct"
  /\ last.branch = "rejected"
  /\ factory.productForm.product_name # ""
  /\ factory.productForm.final_quantity = <<>>

\* the step just taken is a create action over a form of which a JSON text
\* does not parse
C9_JsonTextFails ==
  \/ /\ last'.op = "createProcessingStep"
     /\ \/ ~JSONparse(OrEmptyObject(factory.processForm.process_parameters)).ok
        \/ ~JSONparse(OrEmptyObject(factory.processForm.process_conditions)).ok
  \/ /\ last'.op = "createProduct"
     /\ ~JSONparse(OrEmptyObject(factory.productForm.formulation_details)).ok
  \/ /\ last'.op = "createComplianceRule"
     /\ ~JSONparse(admin.ruleForm.rule_parameters).ok
  \/ /\ last'.op = "recordCollection"
     /\ \E f \in {"environmental_data", "storage_conditions"} :
          /\ collector.collectionForm[f] # <<>>
          /\ ~JSONparse(collector.collectionForm[f]).ok

\* C9: a create action over a form one of whose JSON texts fails to parse
\* issues no insert, raises an error notification and keeps the form contents
\* and the modal and selection state.
C9_MalformedJsonKeepsForm ==
  [][C9_JsonTextFails
       => /\ pending' = pending
          /\ toast'.variant = "destructive"
          /\ uiVars' = uiVars
          /\ storeVars' = storeVars]_vars

\* createProcessingStep has thrown on a complete form whose parameters do not
\* parse
C9_Witness ==
  /\ page = "factory" /\ last.op = "createProcessingStep"
  /\ last.branch = "threw"
  /\ factory.selectedBatch # Null
  /\ factory.processForm.process_parameters = <<"{">>

C10_CreateAndUpdateOps ==
  {"createProcessingStep", "createProduct", "recordCollection",
   "createCollectorProfile", "createHerb", "createComplianceRule",
   "updateTestResults"}
C10_SettledOps ==
  {"createProcessingStep.settled", "createProduct.settled",
   "recordCollection.settled", "createCollectorProfile.settled",
   "createHerb.settled", "createComplianceRule.settled",
   "updateTestResults.settled"}
C10_FailureBranches == {"rejected", "threw", "error"}

\* a step of a create or update that fails, or that sends its call
C10_CreateOrUpdateStep ==
  \/ last'.op \in C10_CreateAndUpdateOps
       /\ last'.branch \in C10_FailureBranches \cup {"awaiting"}
  \/ last'.op \in C10_SettledOps /\ last'.branch = "error"

\* a step of a sign-in or sign-up that fails, or that sends its call
C10_AuthStep ==
  \/ last'.op = "handleSubmit"
  \/ last'.op = "handleSubmit.settled" /\ last'.branch = "error"

\* the step on which a scan fails, or finds the input empty
C10_ScanFailureStep ==
  \/ last'.op = "scanQRCode" /\ last'.branch = "missing"
  \/ last'.op = "scanQRCode.settled" /\ last'.branch # "success"

\* what a step leaves of the portal state, loading apart
C10_ShownUnchanged ==
  /\ <<factory, lab, collector, admin>>' = <<factory, lab, collector, admin>>
  /\ auth'.isSignIn = auth.isSignIn /\ auth'.formData = auth.formData
  /\ consumer'.qrCode = consumer.qrCode
  /\ consumer'.traceData = consumer.traceData
  /\ consumer'.error = consumer.error

\* C10 as stated: every failure path returns the portal to its pre-action
\* state. No step of a scan, create, update or sign-in/sign-up that ends in
\* an error changes the displayed trace and error, the lists, the form
\* fields, the selection or the modal flags, and once it has failed loading
\* is false as before the action.
C10_FailureRestoresState ==
  [][(C10_CreateOrUpdateStep \/ C10_AuthStep \/ C10_ScanFailureStep)
       => /\ C10_ShownUnchanged
          /\ last'.branch # "awaiting"
               => (~auth'.loading /\ ~consumer'.loading)]_vars

\* C10 amended: a create, an update and a sign-in/sign-up that end in an
\* error leave lists, form fields, selection and modal flags as they were,
\* the sign-in form's loading being true while its call is in flight and
\* false after the failure; a scan that fails leaves the input and the
\* displayed trace as they are, sets a non-empty error and ends loading.
C10_FailureKeepsForms ==
  [][/\ C10_CreateOrUpdateStep => uiVars' = uiVars
     /\ (C10_AuthStep /\ last'.branch = "awaiting")
          => auth' = [auth EXCEPT !.loading = TRUE]
     /\ (C10_AuthStep /\ last'.branch = "threw") => auth' = auth
     /\ (C10_AuthStep /\ last'.branch = "error")
          => auth' = [auth EXCEPT !.loading = FALSE]
     /\ (last'.op = "scanQRCode" /\ last'.branch = "missing")
          => consumer' = consumer
     /\ (last'.op = "scanQRCode.settled" /\ last'.branch # "success")
          => /\ consumer'.error # ""
             /\ consumer' = [consumer EXCEPT !.error = consumer'.error,
                                             !.loading = FALSE]]_vars

\* a sign-up has been refused by the auth provider, the form filled in
C10_Witness ==
  /\ page = "auth" /\ last.op = "handleSubmit.settled"
  /\ last.branch = "error"
  /\ ~auth.isSignIn /\ auth.formData.role = "farmer"
  /\ auth.formData.aadhaar_id # ""

\* C11: a quality test that is completed stays completed through every Lab
\* portal step: no step sets its test_status back to pending or to failed.
C11_CompletedStaysCompleted ==
  [][\A i \in DOMAIN quality_tests :
       quality_tests[i].test_status = "completed"
       => /\ i \in DOMAIN quality_tests'
          /\ quality_tests'[i].test_status = "completed"]_vars

\* Save Results has been applied to the test that was completed at mount
C11_Witness ==
  /\ page = "lab"
  /\ last = [op |-> "updateTestResults.settled", branch |-> "ok"]
  /\ \E i \in DOMAIN quality_tests :
       /\ quality_tests[i].id = 2
       /\ quality_tests[i].test_results # Null
       /\ quality_tests[i].test_status = "completed"

\* C12: a step changes a quality_tests row (its test_results, test_status or
\* completion_date) only if the row's test_status was pending.
C12_FinalizedOnlyFromPending ==
  [][\A i \in DOMAIN quality_tests :
       (i \in DOMAIN quality_tests' /\ quality_tests'[i] # quality_tests[i])
       => quality_tests[i].test_status = "pending"]_vars

\* the user action a call in flight belongs to: the scan, the sign-in or
\* sign-up, or the create / update on a table
C13_ActionOf(c) ==
  IF c.call \in {"insert", "update"} THEN <<c.call, c.table>> ELSE <<c.call>>

C13_ActionCalls ==
  {c \in Awaiting :
     c.call \in {"getQRCodeData", "signIn", "signUp", "insert", "update"}}

\* C13: at most one call per action is in flight: of the scan, sign-in,
\* sign-up, create and update calls awaiting their response, no two belong to
\* the same action.
C13_OneCallPerAction ==
  \A c \in C13_ActionCalls :
     SumOver({d \in C13_ActionCalls : C13_ActionOf(d) = C13_ActionOf(c)},
             pending) <= 1

\* C14: a Product row that createProduct inserts names only batches that
\* have, at the insertion, no processing step with an empty completion_date.
C14_ProductOfCompletedBatches ==
  [][(last'.op = "createProduct.settled" /\ last'.branch = "ok")
     => \A b \in Range(products'[Len(products')].batch_ids) :
          \A i \in DOMAIN processing_steps :
             processing_steps[i].batch_id = b
             => processing_steps[i].completion_date # ""]_vars

\* createProduct goes on to its insert: the form is shown and passes the
\* checks, and the store takes a call and a row more
C17_CreateProductProceeds ==
  /\ page = "factory" /\ ~factory.loading /\ factory.showProductForm
  /\ ~MissingProductFields /\ ProductJsonParses
  /\ CanIssue /\ Room

\* C17: whatever products are stored or being inserted, a createProduct that
\* gets to its insert can read the millisecond the previous one read, and
\* then issues the insert of a row whose token is that of PROD_<that
\* millisecond> and the batch ids: a collision is neither detected nor
\* rejected.
C17_SameMillisecondNotRejected ==
  C17_CreateProductProceeds
  => ENABLED (/\ createProduct
              /\ now' = now
              /\ [call |-> "insert", table |-> "products",
                  row |-> ProductRow(profile.id, factory.productForm, now,
                                    CompletedBatchIds)] \in BagToSet(pending'))

\* two Product rows of the store hold the same qr_code
C17_Witness ==
  /\ page = "factory"
  /\ last = [op |-> "createProduct.settled", branch |-> "ok"]
  /\ \E i, j \in DOMAIN products :
       i # j /\ products[i].qr_code = products[j].qr_code

C15_ReadFailureShowsNoTrace ==
  [][(last'.op = "scanQRCode.settled" /\ last'.readFailed)
     => /\ consumer'.error # ""
        /\ consumer'.traceData = Null
        /\ BagCardinality(pending') < BagCardinality(pending)]_vars

\* a call of getQRCodeData has returned a trace
C16_Composed ==
  /\ page = "resolver" /\ resolver.stage = "done"
  /\ ~resolver.result.thrown /\ resolver.result.data.error = ""

\* C16: a trace result is composed only once the reads of collections,
\* quality tests and processing steps (and before them the read of the
\* batches) have all been answered, and it is the same result whatever the
\* order of the answers: the product with its batches and the rows of each
\* read.
C16_ComposedAfterAllReads ==
  C16_Composed
  => /\ \A k \in FanOutReads : resolver.reads[k].status = "ok"
     /\ Len(resolver.order) = Cardinality(FanOutReads)
     /\ resolver.result.data = TraceOf(resolver.product)

\* a trace composed after the reads were answered in the reverse of the
\* order of the steps
C16_Witness ==
  /\ C16_Composed
  /\ resolver.order = <<"processingSteps", "qualityTests", "collections">>
  /\ resolver.result.data.qualityTests # <<>>

\* C19: a signUp call carries a non-empty aadhaar_id or cooperative_group
\* only if its role is farmer or wild_collector.
C19_CollectorFieldsOnlyForCollectors ==
  \A c \in Awaiting :
     (c.call = "signUp" /\ (c.aadhaar_id # "" \/ c.cooperative_group # ""))
     => c.role \in {"farmer", "wild_collector"}

\* C20: the only calls issued on collection_events that write are inserts,
\* and a step changes the table only when a recordCollection succeeds, which
\* adds one row and leaves every row already stored as it is.
C20_CollectionEventsAppendOnly ==
  /\ [](\A c \in Awaiting :
          (c.call \in {"insert", "update", "delete"}
             /\ c.table = "collection_events")
          => c.call = "insert")
  /\ [][\/ collection_events' = collection_events
        \/ /\ last'.op = "recordCollection.settled"
           /\ last'.branch = "ok"
           /\ Len(collection_events') = Len(collection_events) + 1
           /\ SubSeq(collection_events', 1, Len(collection_events))
                = collection_events]_vars

\* a collection event recorded from the portal is stored
C20_Witness ==
  /\ page = "collector"
  /\ last = [op |-> "recordCollection.settled", branch |-> "ok"]
  /\ collection_events # <<>>

\* the calls of the resolver in flight
C21_ScanCalls(bag) ==
  SumOver({c \in BagToSet(bag) : c.call = "getQRCodeData"}, bag)

\* C21: a scan of an input that is not blank issues exactly one call of the
\* resolver, for the trimmed input, also when the trace of that token is on
\* display, and it clears the trace and the error displayed before.
C21_EveryScanCallsResolver ==
  [][(last'.op = "scanQRCode")
     => IF Trim(consumer.qrCode) = <<>>
        THEN last'.branch = "missing"
        ELSE /\ last'.branch = "awaiting"
             /\ C21_ScanCalls(pending') = C21_ScanCalls(pending) + 1
             /\ \E c \in BagToSet(pending') :
                  c.call = "getQRCodeData" /\ c.latest
                  /\ c.token = Trim(consumer.qrCode)
             /\ consumer'.traceData = Null
             /\ consumer'.error = ""]_vars

\* a token whose trace was on display has been scanned again
C21_Witness ==
  /\ page = "consumer"
  /\ last.op = "scanQRCode" /\ last.branch = "awaiting" /\ last.repeated
  /\ consumer.traceData = Null

\* the sign-in and sign-up calls in flight
C22_AuthCalls(bag) == {c \in BagToSet(bag) : c.call \in {"signIn", "signUp"}}

\* C22: a submit of the sign-up form with no role selected issues no call
\* and raises a destructive notification asking for the role; any other
\* submit issues one call, signIn on the sign-in tab and signUp on the
\* sign-up tab, and no signUp call ever carries an empty role.
C22_RoleCheckedBeforeSignUp ==
  [][(last'.op = "handleSubmit")
     => /\ \A c \in C22_AuthCalls(pending') :
             c.call = "signUp" => c.role # ""
        /\ IF ~auth.isSignIn /\ auth.formData.role = ""
           THEN /\ pending' = pending
                /\ toast'.variant = "destructive"
                /\ toast'.description = "Please select your role"
           ELSE /\ BagCardinality(pending') = BagCardinality(pending) + 1
                /\ \E c \in C22_AuthCalls(pending') :
                     /\ pending' = pending (+) SetToBag({c})
                     /\ c.call = IF auth.isSignIn THEN "signIn"
                                 ELSE "signUp"]_vars

\* the sign-up form has been submitted with no role selected
C22_Witness ==
  /\ page = "auth" /\ ~auth.isSignIn /\ auth.formData.role = ""
  /\ last = [op |-> "handleSubmit", branch |-> "threw"]
  /\ toast.description = "Please select your role"
  /\ pending = EmptyBag

\* a text made of blanks only
C23_Blank(s) == \A i \in DOMAIN s : s[i] = Space

\* t is s without the blanks at its two ends
C23_IsTrimOf(t, s) ==
  /\ t # <<>> /\ Head(t) # Space /\ t[Len(t)] # Space
  /\ \E i \in DOMAIN s :
       /\ SubSeq(s, i, i + Len(t) - 1) = t
       /\ C23_Blank(SubSeq(s, 1, i - 1))
       /\ C23_Blank(SubSeq(s, i + Len(t), Len(s)))

\* C23: a scan of an empty or blank input issues no call and leaves loading,
\* error and the displayed trace as they are; any other scan passes the
\* resolver the input without the blanks at its ends.
C23_BlankScanDoesNothing ==
  [][(last'.op = "scanQRCode")
     => IF C23_Blank(consumer.qrCode)
        THEN /\ last'.branch = "missing"
             /\ pending' = pending
             /\ consumer' = consumer
        ELSE /\ last'.branch = "awaiting"
             /\ \E c \in BagToSet(pending') :
                  /\ c.call = "getQRCodeData" /\ c.latest
                  /\ C23_IsTrimOf(c.token, consumer.qrCode)]_vars

\* a blank input has been scanned with a trace on display, which stays
C23_Witness ==
  /\ page = "consumer"
  /\ last = [op |-> "scanQRCode", branch |-> "missing"]
  /\ consumer.qrCode = <<Space>>
  /\ consumer.traceData # Null

\* C24: in the Consumer portal a trace is on display only if no error is:
\* traceData is non-null only if error is empty.
C24_TraceExcludesError ==
  page = "consumer" => (consumer.traceData # Null => consumer.error = "")

\* C25: while a scan is in flight loading is true, and the response that
\* leaves no scan in flight is the one of the scan submitted last and leaves
\* its outcome on display: its trace with no error, or its error with no
\* trace.
C25_LatestScanWins ==
  /\ [](C21_ScanCalls(pending) > 0 => consumer.loading)
  /\ [][(last'.op = "scanQRCode.settled" /\ C21_ScanCalls(pending') = 0)
        => /\ last'.latest
           /\ IF last'.branch = "success"
              THEN /\ consumer'.error = ""
                   /\ consumer'.traceData \in resolve(last'.token)
              ELSE /\ consumer'.error # ""
                   /\ consumer'.traceData = Null]_vars

\* C26: the results updateTestResults sends for a test hold no value typed
\* while another test was selected: a value in the results form at Save
\* Results was typed with the test selected that is saved.
C26_ResultsTypedForTheSavedTest ==
  [][(last'.op = "updateTestResults" /\ lab.testResults # EmptyTestResults)
     => lab.typedFor = lab.selectedTest.id]_vars

\* C27: every update the Lab portal sends names, by its id, a row of
\* quality_tests whose lab_id is the signed-in lab's, sent with a test
\* selected, and a step changes no row of another lab.
C27_UpdatesOwnTestsOnly ==
  /\ [](\A c \in Awaiting :
          c.call = "update"
          => \E i \in DOMAIN quality_tests :
               /\ quality_tests[i].id = c.id
               /\ quality_tests[i].lab_id = profile.id)
  /\ [][/\ last'.op = "updateTestResults" => lab.selectedTest # Null
        /\ \A i \in DOMAIN quality_tests :
             quality_tests'[i] # quality_tests[i]
             => /\ quality_tests[i].lab_id = profile.id
                /\ last'.op = "updateTestResults.settled"]_vars

\* a test of the lab has been updated in a store that holds a test of
\* another lab
C27_Witness ==
  /\ page = "lab"
  /\ last = [op |-> "updateTestResults.settled", branch |-> "ok"]
  /\ \E i, j \in DOMAIN quality_tests :
       /\ quality_tests[i].lab_id = profile.id
       /\ quality_tests[i].test_results # Null
       /\ quality_tests[j].lab_id # profile.id
       /\ quality_tests[j].test_results = Null

\* C28: the collectors table never holds two rows of one profile_id;
\* createCollectorProfile runs only while no collector row is known, and the
\* row it inserts has verification_status pending and collector_type farmer
\* exactly when the profile's role is farmer, wild_collector otherwise.
C28_OneCollectorPerProfile ==
  /\ [](\A i, j \in DOMAIN collectors :
          collectors[i].profile_id = collectors[j].profile_id => i = j)
  /\ [](\A c \in Awaiting :
          (c.call = "insert" /\ c.table = "collectors")
          => /\ c.row.profile_id = profile.id
             /\ c.row.verification_status = "pending"
             /\ c.row.collector_type =
                  IF profile.role = "farmer" THEN "farmer"
                  ELSE "wild_collector")
  /\ [][last'.op = "createCollectorProfile"
        => collector.collector = Null]_vars

\* C29: fetchData of the Factory, Admin and Collector portals replaces the
\* portal's lists all together or not at all: a step of fetchData that awaits
\* a further read or that ends in the catch leaves every list as it was, a
\* fetchData that ends (in the setters or in the catch) leaves loading false,
\* and loading, once false, is never true again.
C29_Lists ==
  <<factory.availableBatches, factory.processingSteps,
    admin.herbs, admin.complianceRules,
    collector.collector, collector.herbs, collector.collectionEvents>>
C29_Loading ==
  CASE page = "factory" -> factory.loading
    [] page = "admin" -> admin.loading
    [] page = "collector" -> collector.loading
    [] OTHER -> FALSE
C29_FetchAllOrNothing ==
  /\ [][last'.op = "fetchData" =>
          /\ last'.branch \in {"awaiting", "error"} => C29_Lists' = C29_Lists
          /\ last'.branch \in {"ok", "error"} => ~C29_Loading']_vars
  /\ [][~C29_Loading => ~C29_Loading']_vars
C29_Witness ==
  /\ page = "collector"
  /\ last.op = "fetchData" /\ last.branch = "error"
  /\ collector.herbs # <<>>
  /\ ~collector.loading

\* C30: the answer of a refetch started earlier does not replace what a
\* refetch started later has shown: when the lists the portal shows are the
\* rows the store holds for the portal's filters, they still are after a
\* refetch has been answered and has set them.
C30_ShownIsStored ==
  CASE page = "factory" ->
         /\ factory.availableBatches = ApprovedBatches
         /\ factory.processingSteps =
              SelectSeq(processing_steps,
                        LAMBDA st : st.processor_id = profile.id)
    [] page = "lab" -> lab.qualityTests = TestsOfLab
    [] page = "collector" ->
         /\ collector.herbs = herbs
         /\ collector.collector # Null =>
              collector.collectionEvents =
                SelectSeq(collection_events,
                          LAMBDA e : e.collector_id = collector.collector.id)
    [] page = "admin" ->
         /\ admin.herbs = herbs
         /\ admin.complianceRules = compliance_rules
    [] OTHER -> TRUE
C30_RefetchNeverShowsOlderRows ==
  [][(/\ last'.op \in {"fetchData", "fetchQualityTests"}
      /\ last'.branch = "ok"
      /\ C30_ShownIsStored)
     => C30_ShownIsStored']_vars

====
